---------------------------- MODULE Spec2Model ----------------------------
(***************************************************************************)
(* Model of the zk-hash proof engine: prime field, MiMC, the algebraic     *)
(* Merkle tree, the Fiat-Shamir sampler (zk-hash/stark-math.js), the       *)
(* prover (zk-hash/prover.js) and the verifier (zk-hash/verifier.js).      *)
(*                                                                         *)
(* JavaScript strings are sequences of character codes ("12" is <<49,50>>),*)
(* so that String(v), BigInt(s) and stringToField(s) are real conversions. *)
(* BigInt arithmetic is unbounded in the source; the model evaluates it on *)
(* a field of the same shape 3 * 2^k + 1 as the source's 3 * 2^30 + 1,     *)
(* with k = FieldBits, so that every intermediate product stays inside     *)
(* the integers the model checker computes with.                           *)
(***************************************************************************)
EXTENDS Integers, Sequences, FiniteSets

(***************************************************************************)
(* Bounds of the model.                                                    *)
(***************************************************************************)
FieldBits == 12        \* the field is 3 * 2^FieldBits + 1 (source: 30)
MaxStrLen == 1         \* longest password / secret
MaxDelta == 2          \* a tampered number is the old one + 1..MaxDelta, or + p
MaxDomain == 3         \* largest domainSize of a stand-alone sampler call
MaxSeed == 5           \* stand-alone sampler calls use roots "0".."MaxSeed"
IterCap == 40          \* sampler iterations the model follows in one call
MaxLeaves == 5         \* most leaves of a tree built on its own
MaxOperand == 16       \* library calls take operands 0..MaxOperand and p-2, p-1

(***************************************************************************)
(* Program constants.                                                      *)
(***************************************************************************)
FIELD_MODULUS == 3 * 2^FieldBits + 1
MIMC_ROUNDS == 64
NUM_QUERIES == 5
\* 123456789 scaled with the field (p is 3 * 2^30 + 1 in the source), so that
\* the constants stand to the modulus as they do there.
RoundConstantFactor == 123456789 \div 2^(30 - FieldBits)

\* The constants reduced into the field when the table is built.
MimcConstantsReduced(i) == (i * RoundConstantFactor) % FIELD_MODULUS

\* MIMC_CONSTANTS[i] = BigInt(i * 123456789): not reduced.
MIMC_CONSTANTS(i) == i * RoundConstantFactor

(***************************************************************************)
(* JavaScript values: strings, null, undefined.                            *)
(***************************************************************************)
Null == <<-1>>
Undefined == <<-2>>
NullPath == <<Null>>
EmptyString == <<>>

IsString(s) == s # Null /\ s # Undefined

IsDigit(c) == c >= 48 /\ c <= 57

RECURSIVE DigitsOf(_)
DigitsOf(n) == IF n < 10 THEN <<48 + n>> ELSE Append(DigitsOf(n \div 10), 48 + (n % 10))

\* BigInt.prototype.toString(): canonical decimal, no sign for n >= 0.
toString(n) == DigitsOf(n)

\* BigInt(s) succeeds on "" (0n) and on a run of decimal digits; otherwise
\* (letters, null, undefined) it throws.
BigIntThrows(s) == ~IsString(s) \/ \E i \in 1..Len(s) : ~IsDigit(s[i])

RECURSIVE ParseDigits(_, _, _)
ParseDigits(s, i, acc) ==
    IF i > Len(s) THEN acc ELSE ParseDigits(s, i + 1, acc * 10 + (s[i] - 48))

BigInt(s) == ParseDigits(s, 1, 0)

(***************************************************************************)
(* FieldElement constructor and stringToField.                             *)
(***************************************************************************)
\* JavaScript's % on BigInt: the remainder has the sign of the dividend.
Rem(a, m) == IF a >= 0 THEN a % m ELSE 0 - ((0 - a) % m)

\* The constructor without the "+ FIELD_MODULUS" that lifts a negative remainder.
FieldElementNoLift(val) == Rem(val, FIELD_MODULUS)

\* new FieldElement(val).val
FieldElement(val) == Rem(Rem(val, FIELD_MODULUS) + FIELD_MODULUS, FIELD_MODULUS)

\* add, sub, mul of FieldElement, on the stored values.
add(a, b) == FieldElement(a + b)
sub(a, b) == FieldElement(a - b)
mul(a, b) == FieldElement(a * b)

\* pow's square-and-multiply loop: while (p > 0n) { ... p >>= 1n }.
RECURSIVE PowLoop(_, _, _)
PowLoop(res, base, e) ==
    IF e > 0
    THEN PowLoop(IF e % 2 = 1 THEN (res * base) % FIELD_MODULUS ELSE res,
                 (base * base) % FIELD_MODULUS, e \div 2)
    ELSE res

pow(a, exp) == FieldElement(PowLoop(1, a, exp))

\* inv: this.pow(FIELD_MODULUS - 2n); div: this.mul(other.inv()).
inv(a) == pow(a, FIELD_MODULUS - 2)
div(a, b) == mul(a, inv(b))

RECURSIVE CharFold(_, _, _)
CharFold(str, i, val) ==
    IF i > Len(str) THEN val ELSE CharFold(str, i + 1, (val * 256) + str[i])

\* ZKProver.stringToField(...).val and ZKVerifier.stringToField agree line by line.
stringToField(str) == FieldElement(CharFold(str, 1, 0))

(***************************************************************************)
(* MiMC.                                                                   *)
(***************************************************************************)
\* One round: t = (curr + key + c_i) % p; t3 = ((t * t) % p * t) % p.
CubeRound(curr, key, i) ==
    LET t == (curr + key + MIMC_CONSTANTS(i)) % FIELD_MODULUS
        t2 == (t * t) % FIELD_MODULUS
    IN  (t2 * t) % FIELD_MODULUS

\* mimcHash's for loop restricted to the rounds lo .. hi - 1, started from
\* curr: the rounds lo .. mid - 1, then the rounds mid .. hi - 1 on their
\* result c (the singleton set fixes c before the later rounds are applied).
RECURSIVE MimcLoop(_, _, _, _)
MimcLoop(curr, key, lo, hi) ==
    IF hi <= lo THEN curr
    ELSE IF hi - lo = 1 THEN CubeRound(curr, key, lo)
    ELSE CHOOSE r \in {MimcLoop(c, key, (lo + hi) \div 2, hi) :
                        c \in {MimcLoop(curr, key, lo, (lo + hi) \div 2)}} : TRUE

\* The loop over all rounds, then the closing key addition.
\* mimcHash returning the last round's value, the closing key addition left out.
mimcHashNoClosingAdd(x, k) == MimcLoop(x, k, 0, MIMC_ROUNDS)

mimcHash(x, k) == (MimcLoop(x, k, 0, MIMC_ROUNDS) + k) % FIELD_MODULUS

(***************************************************************************)
(* Fiat-Shamir sampler.                                                    *)
(***************************************************************************)
RECURSIVE SortAsc(_)
SortAsc(S) ==
    IF S = {} THEN <<>>
    ELSE LET m == CHOOSE x \in S : \A y \in S : x <= y
         IN  <<m>> \o SortAsc(S \ {m})

\* The index one loop iteration draws: Number(mimcHash(seed, counter) % domainSize).
FSIndex(seed, counter, domainSize) == mimcHash(seed, counter) % domainSize

\* A JavaScript Set keeps its members in insertion order: a sequence
\* without repetitions, indices.size its length.
Members(indices) == {indices[j] : j \in 1..Len(indices)}

\* One iteration of the while loop: the set after indices.add(idx).
FSAdd(indices, seed, counter, domainSize) ==
    LET idx == FSIndex(seed, counter, domainSize)
    IN  IF idx < domainSize /\ idx \notin Members(indices) THEN Append(indices, idx)
        ELSE indices

\* The return without its sort: the indices in the order they were drawn.
FSReturnUnsorted(indices) == indices

\* Array.from(indices).sort((a,b) => a-b)
FSReturn(indices) == SortAsc(Members(indices))

RECURSIVE FSLoop(_, _, _, _, _)
FSLoop(seed, numQueries, domainSize, indices, counter) ==
    IF Len(indices) >= numQueries THEN [returned |-> TRUE, indices |-> FSReturn(indices)]
    ELSE IF counter >= FIELD_MODULUS THEN [returned |-> FALSE, indices |-> <<>>]
    ELSE FSLoop(seed, numQueries, domainSize,
                FSAdd(indices, seed, counter, domainSize), counter + 1)

\* The whole call, for a decimal root.  mimcHash reads the counter only
\* modulo p, so a call that has not collected numQueries indices after p
\* iterations never returns.
generateFiatShamirQueries(traceRoot, numQueries, domainSize) ==
    FSLoop(BigInt(traceRoot), numQueries, domainSize, <<>>, 0)

(***************************************************************************)
(* Merkle tree.                                                            *)
(***************************************************************************)
\* hashPair's parse of one side: toBI(x || "0").
HashPairThrows(a, b) ==
    \/ (a # EmptyString /\ BigIntThrows(a))
    \/ (b # EmptyString /\ BigIntThrows(b))

hashPair(a, b) ==
    LET ba == BigInt(IF a = EmptyString THEN <<48>> ELSE a)
        bb == BigInt(IF b = EmptyString THEN <<48>> ELSE b)
        mixed == (ba + (bb * 2)) % FIELD_MODULUS
    IN  toString(mimcHash(mixed, 0))

\* build's inner for loop, for (i = 0; i < currentLayer.length; i += 2):
\* nextLayer holds one node per pair already visited, so i = 2 * Len(nextLayer).
RightOf(currentLayer, i) ==
    IF i + 1 < Len(currentLayer) THEN currentLayer[i + 2] ELSE EmptyString

RECURSIVE PairLoop(_, _)
PairLoop(currentLayer, nextLayer) ==
    IF 2 * Len(nextLayer) < Len(currentLayer)
    THEN PairLoop(currentLayer,
                  Append(nextLayer, hashPair(currentLayer[2 * Len(nextLayer) + 1],
                                             RightOf(currentLayer, 2 * Len(nextLayer)))))
    ELSE nextLayer

NextLayer(currentLayer) == PairLoop(currentLayer, <<>>)

RECURSIVE BuildLayers(_)
BuildLayers(layers) ==
    IF Len(layers[Len(layers)]) > 1
    THEN BuildLayers(Append(layers, NextLayer(layers[Len(layers)])))
    ELSE layers

\* leaves.map(l => typeof l === 'string' ? l : l.toString()) on BigInt leaves.
RECURSIVE LeafStrings(_, _)
LeafStrings(leaves, out) ==
    IF Len(out) < Len(leaves)
    THEN LeafStrings(leaves, Append(out, toString(leaves[Len(out) + 1])))
    ELSE out

\* new MerkleTree(leaves): this.layers after build().
MerkleTree(leaves) == BuildLayers(<<LeafStrings(leaves, <<>>)>>)

getRoot(layers) == layers[Len(layers)][1]

\* The entry taken from the node's own position instead of its sibling's.
PathEntryOwnNode(layer, currentIdx) ==
    IF currentIdx < Len(layer) THEN layer[currentIdx + 1] ELSE EmptyString

\* The sibling getPath pushes at one layer, or "" as padding.
PathEntry(layer, currentIdx) ==
    LET isLeft == currentIdx % 2 = 0
        siblingIdx == IF isLeft THEN currentIdx + 1 ELSE currentIdx - 1
    IN  IF siblingIdx < Len(layer) THEN layer[siblingIdx + 1] ELSE EmptyString

RECURSIVE PathLoop(_, _, _, _)
PathLoop(layers, layerIdx, currentIdx, path) ==
    IF layerIdx < Len(layers) - 1
    THEN PathLoop(layers, layerIdx + 1, currentIdx \div 2,
                  Append(path, PathEntry(layers[layerIdx + 1], currentIdx)))
    ELSE path

getPath(layers, index) == PathLoop(layers, 0, index, <<>>)

\* The step with the sibling always taken as the right-hand node.
FoldStepAlwaysLeft(currentHash, currentIdx, sibling) == hashPair(currentHash, sibling)

\* One step of verify's loop over the path.
FoldStep(currentHash, currentIdx, sibling) ==
    IF currentIdx % 2 = 0 THEN hashPair(currentHash, sibling)
    ELSE hashPair(sibling, currentHash)

RECURSIVE FoldPath(_, _, _, _)
FoldPath(currentHash, currentIdx, path, k) ==
    IF k > Len(path) THEN currentHash
    ELSE CHOOSE r \in {FoldPath(h, currentIdx \div 2, path, k + 1) :
                        h \in {FoldStep(currentHash, currentIdx, path[k])}} : TRUE

\* A path that is null is not iterable, and a sibling that BigInt cannot
\* parse makes hashPair throw.
MerkleVerifyThrows(path) ==
    path = NullPath \/ \E k \in 1..Len(path) : (path[k] # EmptyString /\ BigIntThrows(path[k]))

\* A verify that turns down an index the path's length cannot address.
MerkleVerifyInRange(root, index, value, path) ==
    index < 2^Len(path) /\ FoldPath(toString(value), index, path, 1) = root

\* static MerkleTree.verify(root, index, value, path); value is a BigInt.
MerkleVerify(root, index, value, path) ==
    FoldPath(toString(value), index, path, 1) = root

(***************************************************************************)
(* Prover.                                                                 *)
(***************************************************************************)
ProofTypeIntegrity == "zk-stark-mimc-real"
ProofTypeKnowledge == "zk-stark-knowledge-proof"
Algorithms == {"bcrypt", "argon2id", "mimc-stark"}

\* The trace loop of generateProof and generateKnowledgeProof:
\* trace.push(curr) after each round, no closing key addition.
RECURSIVE TraceLoop(_, _)
TraceLoop(trace, key) ==
    IF Len(trace) - 1 < MIMC_ROUNDS
    THEN TraceLoop(Append(trace, CubeRound(trace[Len(trace)], key, Len(trace) - 1)), key)
    ELSE trace

\* indices.map(idx => ({index, value, path, next_value, next_path}))
SampledQuery(trace, layers, idx) ==
    [index |-> idx,
     value |-> toString(trace[idx + 1]),
     path |-> getPath(layers, idx),
     next_value |-> toString(trace[idx + 2]),
     next_path |-> getPath(layers, idx + 1)]

\* The boundary query pushed after the sampled ones.
BoundaryQuery(trace, layers) ==
    [index |-> MIMC_ROUNDS,
     value |-> toString(trace[MIMC_ROUNDS + 1]),
     path |-> getPath(layers, MIMC_ROUNDS),
     next_value |-> Null,
     next_path |-> NullPath]

\* The query list with the boundary query pushed first.
TraceQueriesBoundaryFirst(trace, layers, indices) ==
    <<BoundaryQuery(trace, layers)>> \o
        [j \in 1..Len(indices) |-> SampledQuery(trace, layers, indices[j])]

TraceQueries(trace, layers, indices) ==
    Append([j \in 1..Len(indices) |-> SampledQuery(trace, layers, indices[j])],
           BoundaryQuery(trace, layers))

\* The key generateProof binds the trace to: the KDF artifact for bcrypt and
\* argon2id, 0n in native mode.
ProverKey(algorithm, hash) ==
    IF algorithm \in {"bcrypt", "argon2id"} THEN stringToField(hash) ELSE 0

\* The outputHash generateProof publishes.
ProverOutputHash(algorithm, hash, outputVal) ==
    IF algorithm = "mimc-stark" THEN toString(outputVal) ELSE hash

\* The proof object generateProof returns, from its locals.
IntegrityProof(algorithm, hash, trace, traceTree, indices) ==
    [proof_type |-> ProofTypeIntegrity,
     public_inputs |-> [algorithm |-> algorithm,
                        outputHash |-> ProverOutputHash(algorithm, hash, trace[MIMC_ROUNDS + 1]),
                        mimc_output |-> toString(trace[MIMC_ROUNDS + 1]),
                        trace_root |-> getRoot(traceTree),
                        nonce |-> Undefined,
                        public_output |-> Undefined],
     trace_queries |-> TraceQueries(trace, traceTree, indices)]

\* The proof object generateKnowledgeProof returns, from its locals.
KnowledgeProof(nonce, trace, traceTree, indices) ==
    [proof_type |-> ProofTypeKnowledge,
     public_inputs |-> [algorithm |-> "",
                        outputHash |-> Undefined,
                        mimc_output |-> Undefined,
                        trace_root |-> getRoot(traceTree),
                        nonce |-> nonce,
                        public_output |-> toString(trace[MIMC_ROUNDS + 1])],
     trace_queries |-> TraceQueries(trace, traceTree, indices)]

(***************************************************************************)
(* Verifier.                                                               *)
(***************************************************************************)
Accept(key) == [success |-> TRUE, error |-> "none", key |-> key]
\* What the caller would get of a throw if verify had no catch around it.
RejectWithoutCatch(kind, key) ==
    [success |-> FALSE, error |-> IF kind = "LogicError" THEN "Uncaught" ELSE kind, key |-> key]

Reject(kind, key) == [success |-> FALSE, error |-> kind, key |-> key]
NoKey == -1

\* MIMC_CONSTANTS[idx] || 0n
RoundConst(idx) == IF idx >= 0 /\ idx < MIMC_ROUNDS THEN MIMC_CONSTANTS(idx) ELSE 0

\* The re-evaluation with the round constant left out.
ExpectedNextNoConstant(currVal, key, idx) ==
    LET t == (currVal + key) % FIELD_MODULUS
        t2 == (t * t) % FIELD_MODULUS
    IN  (t2 * t) % FIELD_MODULUS

\* The verifier's re-evaluation of one transition: t3.
ExpectedNext(currVal, key, idx) ==
    LET t == (currVal + key + RoundConst(idx)) % FIELD_MODULUS
        t2 == (t * t) % FIELD_MODULUS
    IN  (t2 * t) % FIELD_MODULUS

\* The loop body with the transition relation tested before the Merkle path.
CheckQueryTransitionFirst(query, traceRoot, declaredOutput, key) ==
    IF BigIntThrows(query.value) THEN "LogicError"
    ELSE IF query.index # MIMC_ROUNDS /\ BigIntThrows(query.next_value) THEN "LogicError"
    ELSE IF query.index # MIMC_ROUNDS
            /\ ExpectedNext(BigInt(query.value), key, query.index) # BigInt(query.next_value)
         THEN "TransitionMismatch"
    ELSE IF query.index = MIMC_ROUNDS /\ BigInt(query.value) # declaredOutput
         THEN "BoundaryMismatch"
    ELSE IF MerkleVerifyThrows(query.path) THEN "LogicError"
    ELSE IF ~MerkleVerify(traceRoot, query.index, BigInt(query.value), query.path)
         THEN "MerkleMismatch"
    ELSE "ok"

\* The body of the for loop over trace_queries, for one query: "ok" when the
\* loop goes on to the next query, otherwise the failure it returns (a throw
\* is caught by verify's catch and reported as a logic error).
CheckQuery(query, traceRoot, declaredOutput, key) ==
    IF BigIntThrows(query.value) THEN "LogicError"
    ELSE IF MerkleVerifyThrows(query.path) THEN "LogicError"
    ELSE IF ~MerkleVerify(traceRoot, query.index, BigInt(query.value), query.path)
         THEN "MerkleMismatch"
    ELSE IF query.index = MIMC_ROUNDS
         THEN (IF BigInt(query.value) # declaredOutput THEN "BoundaryMismatch" ELSE "ok")
    ELSE IF BigIntThrows(query.next_value) THEN "LogicError"
    ELSE IF ExpectedNext(BigInt(query.value), key, query.index) # BigInt(query.next_value)
         THEN "TransitionMismatch"
    ELSE "ok"

\* A loop that tests the query at k and none after it.
QueryLoopFirstOnly(trace_queries, k, traceRoot, declaredOutput, key) ==
    IF k > Len(trace_queries) THEN "ok"
    ELSE CheckQuery(trace_queries[k], traceRoot, declaredOutput, key)

\* for (let query of trace_queries): the first failure, or "ok" after the last query.
RECURSIVE QueryLoop(_, _, _, _, _)
QueryLoop(trace_queries, k, traceRoot, declaredOutput, key) ==
    IF k > Len(trace_queries) THEN "ok"
    ELSE CHOOSE r \in {IF c # "ok" THEN c
                        ELSE QueryLoop(trace_queries, k + 1, traceRoot, declaredOutput, key) :
                        c \in {CheckQuery(trace_queries[k], traceRoot, declaredOutput, key)}} : TRUE

Outcome(loopResult, key) ==
    IF loopResult = "ok" THEN Accept(key) ELSE Reject(loopResult, key)

\* CASE A of verify: the knowledge proof.
VerifyKnowledge(proofObj) ==
    LET pi == proofObj.public_inputs
    IN  IF BigIntThrows(pi.public_output) \/ ~IsString(pi.nonce)
        THEN Reject("LogicError", NoKey)
        ELSE Outcome(QueryLoop(proofObj.trace_queries, 1, pi.trace_root,
                               BigInt(pi.public_output), stringToField(pi.nonce)),
                     stringToField(pi.nonce))

\* The key derivation without its native branch.
VerifierKeyAlwaysDerived(algorithm, outputHash) == stringToField(outputHash)

\* Step 2 of CASE B: the key the transitions are checked with.
VerifierKey(algorithm, outputHash) ==
    IF algorithm = "mimc-stark" THEN 0 ELSE stringToField(outputHash)

\* CASE B of verify: the hash integrity proof.
VerifyIntegrity(proofObj) ==
    LET pi == proofObj.public_inputs
    IN  IF BigIntThrows(pi.mimc_output) THEN Reject("LogicError", NoKey)
        ELSE IF pi.algorithm = "mimc-stark" /\ pi.outputHash # pi.mimc_output
             THEN Reject("DataIntegrity", NoKey)
        ELSE IF pi.algorithm # "mimc-stark" /\ ~IsString(pi.outputHash)
             THEN Reject("LogicError", NoKey)
        ELSE Outcome(QueryLoop(proofObj.trace_queries, 1, pi.trace_root,
                               BigInt(pi.mimc_output),
                               VerifierKey(pi.algorithm, pi.outputHash)),
                     VerifierKey(pi.algorithm, pi.outputHash))

\* ZKVerifier.verify
verify(proofObj) ==
    IF proofObj.proof_type = ProofTypeKnowledge THEN VerifyKnowledge(proofObj)
    ELSE IF proofObj.proof_type # ProofTypeIntegrity THEN Reject("UnknownProofType", NoKey)
    ELSE VerifyIntegrity(proofObj)

\* verify on any request body.  js is "falsy" for null, undefined, 0, "" and
\* false, "primitive" for any other non-object and "object" for an object,
\* whose members are in proof except those named in missing.  A falsy body
\* fails the structural check; a primitive has no proof_type; reading a
\* member of a missing public_inputs throws, and so does iterating a missing
\* trace_queries once the steps before the loop have passed.
verifyBody(body) ==
    IF body.js = "falsy" THEN Reject("InvalidProofFormat", NoKey)
    ELSE IF body.js = "primitive" THEN Reject("UnknownProofType", NoKey)
    ELSE IF body.proof.proof_type \notin {ProofTypeKnowledge, ProofTypeIntegrity}
         THEN verify(body.proof)
    ELSE IF "public_inputs" \in body.missing THEN Reject("LogicError", NoKey)
    ELSE IF "trace_queries" \in body.missing
         THEN CHOOSE r \in {IF before.success THEN Reject("LogicError", before.key) ELSE before :
                             before \in {verify([body.proof EXCEPT !.trace_queries = <<>>])}} : TRUE
    ELSE verify(body.proof)

(***************************************************************************)
(* The system: a client that proves, a channel on which the proof can be   *)
(* altered, the server that verifies; and a stand-alone sampler call.      *)
(***************************************************************************)
VARIABLES phase, proof, trace, traceTree, mimcKey, sampled, result, baseline, tamper,
          fsPc, fsRoot, fsN, fsD, fsSeed, fsIndices, fsCounter, fsResult, fsCall, fsFirst,
          libOp, libIn, libOut

proverVars == <<trace, traceTree, mimcKey, sampled>>
mainVars == <<phase, proof, trace, traceTree, mimcKey, sampled, result, baseline, tamper>>
fsVars == <<fsPc, fsRoot, fsN, fsD, fsSeed, fsIndices, fsCounter, fsResult, fsCall, fsFirst>>
libVars == <<libOp, libIn, libOut>>
vars == <<phase, proof, trace, traceTree, mimcKey, sampled, result, baseline, tamper,
          fsPc, fsRoot, fsN, fsD, fsSeed, fsIndices, fsCounter, fsResult, fsCall, fsFirst,
          libOp, libIn, libOut>>

Alphabet == {98, 102}
\* Passwords and secrets; KDF artifacts and nonces (one character).
Strs == UNION {[1..n -> Alphabet] : n \in 1..MaxStrLen}
Tokens == [1..1 -> Alphabet]
\* What is added to a number of the proof: a small step, or p.
Deltas == (1..MaxDelta) \cup {FIELD_MODULUS}
PathDeltas == {1, FIELD_MODULUS}

NoResult == [success |-> FALSE, error |-> "unverified", key |-> NoKey]
NoTamper == [kind |-> "none", query |-> 0, entry |-> 0]
NoProof == [proof_type |-> "none",
            public_inputs |-> [algorithm |-> "", outputHash |-> Undefined,
                               mimc_output |-> Undefined, trace_root |-> Undefined,
                               nonce |-> Undefined, public_output |-> Undefined],
            trace_queries |-> <<>>]

MainIdle ==
    /\ phase = "idle"
    /\ proof = NoProof
    /\ trace = <<>>
    /\ traceTree = <<>>
    /\ mimcKey = 0
    /\ sampled = [returned |-> FALSE, indices |-> <<>>]
    /\ result = NoResult
    /\ baseline = NoResult
    /\ tamper = NoTamper

FSIdle ==
    /\ fsPc = "off"
    /\ fsRoot = <<48>>
    /\ fsN = 0
    /\ fsD = 1
    /\ fsSeed = 0
    /\ fsIndices = <<>>
    /\ fsCounter = 0
    /\ fsResult = <<>>
    /\ fsCall = 0
    /\ fsFirst = <<>>

\* No call of a library function (stark-math) has been made on its own.
LibIdle ==
    /\ libOp = "none"
    /\ libIn = <<>>
    /\ libOut = <<>>

Init == MainIdle /\ FSIdle /\ LibIdle

\* ZKProver.generateProof(password, algorithm, params); hash is what the KDF
\* library returned (unused in native mode).
GenerateProof ==
    /\ phase = "idle"
    /\ \E password \in Strs, algorithm \in Algorithms, hash \in Tokens :
        /\ mimcKey' = ProverKey(algorithm, hash)
        /\ trace' = TraceLoop(<<stringToField(password)>>, mimcKey')
        /\ traceTree' = MerkleTree(trace')
        /\ sampled' = generateFiatShamirQueries(getRoot(traceTree'), NUM_QUERIES, MIMC_ROUNDS)
        /\ sampled'.returned
        /\ proof' = IntegrityProof(algorithm, hash, trace', traceTree', sampled'.indices)
    /\ phase' = "proved"
    /\ UNCHANGED <<result, baseline, tamper>>
    /\ UNCHANGED fsVars
    /\ UNCHANGED libVars

\* ZKProver.generateKnowledgeProof(secretHash, nonce)
GenerateKnowledgeProof ==
    /\ phase = "idle"
    /\ \E secretHash \in Strs, nonce \in Tokens :
        /\ mimcKey' = stringToField(nonce)
        /\ trace' = TraceLoop(<<stringToField(secretHash)>>, mimcKey')
        /\ traceTree' = MerkleTree(trace')
        /\ sampled' = generateFiatShamirQueries(getRoot(traceTree'), NUM_QUERIES, MIMC_ROUNDS)
        /\ sampled'.returned
        /\ proof' = KnowledgeProof(nonce, trace', traceTree', sampled'.indices)
    /\ phase' = "proved"
    /\ UNCHANGED <<result, baseline, tamper>>
    /\ UNCHANGED fsVars
    /\ UNCHANGED libVars

\* The phase a verification request leaves the run in.
AfterVerify(ph) ==
    CASE ph = "proved" -> "checked"
      [] ph = "tampered" -> "rechecked"
      [] ph = "reordered" -> "reverified"

\* A handler whose verifier keeps what it answered and answers a request for
\* a trace root it accepted before from that memory.
VerifyRemembering ==
    /\ phase \in {"proved", "tampered", "reordered"}
    /\ result' = IF phase # "proved" /\ baseline.success THEN baseline ELSE verify(proof)
    /\ baseline' = IF phase = "proved" THEN result' ELSE baseline
    /\ phase' = AfterVerify(phase)
    /\ UNCHANGED <<proof, tamper>>
    /\ UNCHANGED proverVars
    /\ UNCHANGED fsVars
    /\ UNCHANGED libVars

\* POST /api/verify: verifier.verify(req.body)
Verify ==
    /\ phase \in {"proved", "tampered", "reordered"}
    /\ result' = verify(proof)
    /\ baseline' = IF phase = "proved" THEN result' ELSE baseline
    /\ phase' = AfterVerify(phase)
    /\ UNCHANGED <<proof, tamper>>
    /\ UNCHANGED proverVars
    /\ UNCHANGED fsVars
    /\ UNCHANGED libVars

(***************************************************************************)
(* Alterations of a proof between the prover and the verifier.  Each one   *)
(* changes the proof the honest prover emitted in exactly one place.       *)
(***************************************************************************)
Queries == proof.trace_queries

\* A decimal string moved to another number: + 1..MaxDelta, or + p (the
\* non-canonical representative of the same field value).
Shifted(str, d) == toString(BigInt(str) + d)

RemoveAt(seq, k) == SubSeq(seq, 1, k - 1) \o SubSeq(seq, k + 1, Len(seq))

Tampered(kind, k, e) ==
    /\ tamper' = [kind |-> kind, query |-> k, entry |-> e]
    /\ phase' = "tampered"
    /\ UNCHANGED <<result, baseline>>
    /\ UNCHANGED proverVars
    /\ UNCHANGED fsVars
    /\ UNCHANGED libVars

MutateValue ==
    /\ phase = "checked"
    /\ \E k \in 1..Len(Queries), d \in Deltas :
        /\ proof' = [proof EXCEPT !.trace_queries[k].value = Shifted(@, d)]
        /\ Tampered("value", k, 0)

MutateNextValue ==
    /\ phase = "checked"
    /\ \E k \in 1..Len(Queries), d \in Deltas :
        /\ Queries[k].next_value # Null
        /\ proof' = [proof EXCEPT !.trace_queries[k].next_value = Shifted(@, d)]
        /\ Tampered("next_value", k, 0)

MutatePathEntry ==
    /\ phase = "checked"
    /\ \E k \in 1..Len(Queries), d \in PathDeltas :
        \E e \in 1..Len(Queries[k].path) :
            /\ proof' = [proof EXCEPT !.trace_queries[k].path[e] = Shifted(@, d)]
            /\ Tampered("path", k, e)

MutateNextPathEntry ==
    /\ phase = "checked"
    /\ \E k \in 1..Len(Queries), d \in PathDeltas :
        /\ Queries[k].next_path # NullPath
        /\ \E e \in 1..Len(Queries[k].next_path) :
            /\ proof' = [proof EXCEPT !.trace_queries[k].next_path[e] = Shifted(@, d)]
            /\ Tampered("next_path", k, e)

DropNextPath ==
    /\ phase = "checked"
    /\ \E k \in 1..Len(Queries) :
        /\ Queries[k].next_path # NullPath
        /\ proof' = [proof EXCEPT !.trace_queries[k].next_path = NullPath]
        /\ Tampered("next_path_missing", k, 0)

\* The declared output replaced by another canonical field value.
OtherFieldValue(str, d) == toString((BigInt(str) + d) % FIELD_MODULUS)

ReplaceOutput ==
    /\ phase = "checked"
    /\ \E d \in 1..MaxDelta :
        /\ proof' = IF proof.proof_type = ProofTypeKnowledge
                    THEN [proof EXCEPT !.public_inputs.public_output = OtherFieldValue(@, d)]
                    ELSE [proof EXCEPT !.public_inputs.mimc_output = OtherFieldValue(@, d)]
        /\ Tampered("output", 0, 0)

\* The output artifact (outputHash) of a hash integrity proof replaced by
\* another string.
ReplaceOutputHash ==
    /\ phase = "checked"
    /\ proof.proof_type = ProofTypeIntegrity
    /\ \E h \in Tokens :
        /\ h # proof.public_inputs.outputHash
        /\ proof' = [proof EXCEPT !.public_inputs.outputHash = h]
        /\ Tampered("artifact", 0, 0)

\* The query an honest prover would emit for index idx of its trace.
HonestQuery(idx) ==
    IF idx = MIMC_ROUNDS THEN BoundaryQuery(trace, traceTree)
    ELSE SampledQuery(trace, traceTree, idx)

InjectIndices == {0, MIMC_ROUNDS}

InjectQuery ==
    /\ phase = "checked"
    /\ \E idx \in InjectIndices, atFront \in BOOLEAN :
        /\ proof' = [proof EXCEPT !.trace_queries =
                        IF atFront THEN <<HonestQuery(idx)>> \o @
                        ELSE Append(@, HonestQuery(idx))]
        /\ Tampered("inject", idx, 0)

DropQuery ==
    /\ phase = "checked"
    /\ \E k \in 1..Len(Queries) :
        /\ proof' = [proof EXCEPT !.trace_queries = RemoveAt(@, k)]
        /\ Tampered("drop", k, 0)

DropAllQueries ==
    /\ phase = "checked"
    /\ proof' = [proof EXCEPT !.trace_queries = <<>>]
    /\ Tampered("drop_all", 0, 0)

\* The same queries in another order: the list reversed, or with its first
\* two entries exchanged.
Reorders == {"reverse", "swap"}

Reordered(seq, how) ==
    CASE how = "reverse" -> [k \in 1..Len(seq) |-> seq[Len(seq) + 1 - k]]
      [] how = "swap" -> [k \in 1..Len(seq) |->
                             IF k = 1 THEN seq[2] ELSE IF k = 2 THEN seq[1] ELSE seq[k]]

\* A proof the verifier has answered (the emitted one or an altered one) is
\* sent again with its queries reordered; baseline keeps the answer to the
\* list as it was.
ReorderQueries ==
    /\ phase \in {"checked", "rechecked"}
    /\ Len(Queries) >= 2
    /\ \E how \in Reorders :
        proof' = [proof EXCEPT !.trace_queries = Reordered(@, how)]
    /\ tamper' = [kind |-> "reorder", query |-> 0, entry |-> 0]
    /\ baseline' = result
    /\ phase' = "reordered"
    /\ UNCHANGED result
    /\ UNCHANGED proverVars
    /\ UNCHANGED fsVars
    /\ UNCHANGED libVars

Next ==
    \/ GenerateProof
    \/ GenerateKnowledgeProof
    \/ Verify
    \/ MutateValue
    \/ MutateNextValue
    \/ MutatePathEntry
    \/ MutateNextPathEntry
    \/ DropNextPath
    \/ ReplaceOutput
    \/ ReplaceOutputHash
    \/ InjectQuery
    \/ DropQuery
    \/ DropAllQueries

Spec == Init /\ [][Next]_vars

\* Proving, verifying, altering a value or the declared output or adding a
\* query, verifying again, reordering the queries and verifying once more.
NextOrder ==
    \/ GenerateProof
    \/ GenerateKnowledgeProof
    \/ Verify
    \/ MutateValue
    \/ MutateNextValue
    \/ ReplaceOutput
    \/ ReplaceOutputHash
    \/ InjectQuery
    \/ ReorderQueries

SpecOrder == Init /\ [][NextOrder]_vars

(***************************************************************************)
(* One call of generateFiatShamirQueries followed step by step, and the    *)
(* same call made a second time with the same arguments.                   *)
(***************************************************************************)
Roots == {toString(r) : r \in 0..MaxSeed}
Requests ==
    {[n |-> n, d |-> d] : n \in 0..(MaxDomain + 1), d \in 1..MaxDomain}
        \cup {[n |-> NUM_QUERIES, d |-> MIMC_ROUNDS]}

\* Entry of the call: seed = BigInt(traceRoot), indices = new Set(), counter = 0n.
FSEnter(traceRoot, numQueries, domainSize, call) ==
    /\ fsRoot' = traceRoot
    /\ fsN' = numQueries
    /\ fsD' = domainSize
    /\ fsSeed' = BigInt(traceRoot)
    /\ fsIndices' = <<>>
    /\ fsCounter' = 0
    /\ fsCall' = call
    /\ fsPc' = "loop"
    /\ UNCHANGED <<fsResult, fsFirst>>
    /\ UNCHANGED mainVars
    /\ UNCHANGED libVars

FSStart ==
    /\ fsPc = "off"
    /\ \E traceRoot \in Roots, rq \in Requests : FSEnter(traceRoot, rq.n, rq.d, 1)

\* One pass through the body of while (indices.size < numQueries).
FSIterate ==
    /\ fsPc = "loop"
    /\ Len(fsIndices) < fsN
    /\ fsCounter < IterCap
    /\ fsIndices' = FSAdd(fsIndices, fsSeed, fsCounter, fsD)
    /\ fsCounter' = fsCounter + 1
    /\ UNCHANGED <<fsPc, fsRoot, fsN, fsD, fsSeed, fsResult, fsCall, fsFirst>>
    /\ UNCHANGED mainVars
    /\ UNCHANGED libVars

\* The loop condition fails: return Array.from(indices).sort(...).
FSFinish ==
    /\ fsPc = "loop"
    /\ Len(fsIndices) >= fsN
    /\ fsResult' = FSReturn(fsIndices)
    /\ fsFirst' = IF fsCall = 1 THEN fsResult' ELSE fsFirst
    /\ fsPc' = "done"
    /\ UNCHANGED <<fsRoot, fsN, fsD, fsSeed, fsIndices, fsCounter, fsCall>>
    /\ UNCHANGED mainVars
    /\ UNCHANGED libVars

\* The caller repeats the call with the same (root, n, d).
FSCallAgain ==
    /\ fsPc = "done"
    /\ fsCall = 1
    /\ FSEnter(fsRoot, fsN, fsD, 2)

NextFS ==
    \/ FSStart
    \/ FSIterate
    \/ FSFinish
    \/ FSCallAgain

SpecFS == Init /\ [][NextFS]_vars

(***************************************************************************)
(* Calls of the library functions of stark-math on their own: one call per *)
(* behaviour, its arguments in libIn and what it returned in libOut.       *)
(***************************************************************************)

\* What every library call leaves alone.
LibFrame == UNCHANGED mainVars /\ UNCHANGED fsVars

LeafValues == {0, 1, FIELD_MODULUS - 1}
LeafSeqs == UNION {[1..n -> LeafValues] : n \in 1..MaxLeaves}

\* new MerkleTree(leaves), getRoot(), getPath(index) and
\* MerkleTree.verify(root, index, leaves[index], path).
MerkleRoundTripResult(leaves, index, layers) ==
    [layers |-> layers, root |-> getRoot(layers), path |-> getPath(layers, index),
     ok |-> MerkleVerify(getRoot(layers), index, leaves[index + 1], getPath(layers, index))]

MerkleRoundTrip ==
    /\ libOp = "none"
    /\ \E leaves \in LeafSeqs : \E index \in 0..(Len(leaves) - 1) :
           /\ libIn' = [leaves |-> leaves, index |-> index]
           /\ libOut' = MerkleRoundTripResult(leaves, index, MerkleTree(leaves))
    /\ libOp' = "merkle"
    /\ LibFrame

\* MerkleTree.verify(root, i, value, path) and the same call with the index
\* moved up by a multiple of 2^path.length; path is a leaf's path in a built
\* tree, i that leaf's index or its neighbour's, value the leaf or not.
Wraps == {1, 3}

MerkleVerifyShifted ==
    /\ libOp = "none"
    /\ \E leaves \in LeafSeqs : \E layers \in {MerkleTree(leaves)} :
         \E index \in 0..(Len(leaves) - 1) : \E path \in {getPath(layers, index)} :
           \E value \in LeafValues, wrap \in Wraps :
             /\ libIn' = [leaves |-> leaves, index |-> index, value |-> value,
                          shifted |-> index + wrap * 2^Len(path)]
             /\ libOut' = [path |-> path,
                           at |-> MerkleVerify(getRoot(layers), index, value, path),
                           atShifted |-> MerkleVerify(getRoot(layers),
                                                      index + wrap * 2^Len(path),
                                                      value, path)]
    /\ libOp' = "verifyShifted"
    /\ LibFrame

\* Field values the library calls are made on, and the integers a
\* FieldElement is constructed from.
Operands == (0..MaxOperand) \cup {FIELD_MODULUS - 2, FIELD_MODULUS - 1}
SignedInputs == {v - FIELD_MODULUS : v \in Operands} \cup {0 - v : v \in Operands}
                    \cup Operands \cup {v + FIELD_MODULUS : v \in Operands}

\* A call that returned val (none of these functions has a throw).
Returned(val) == [threw |-> FALSE, val |-> val]

\* tempTree.hashPair(a, b) and tempTree.hashPair(b, a) on two field values.
HashPairCall ==
    /\ libOp = "none"
    /\ \E a \in Operands, b \in Operands :
           /\ libIn' = [a |-> a, b |-> b]
           /\ libOut' = [ab |-> hashPair(toString(a), toString(b)),
                         ba |-> hashPair(toString(b), toString(a))]
    /\ libOp' = "hashPair"
    /\ LibFrame

\* new FieldElement(v)
FieldConstruct ==
    /\ libOp = "none"
    /\ \E v \in SignedInputs :
           /\ libIn' = [v |-> v]
           /\ libOut' = Returned(FieldElement(v))
    /\ libOp' = "construct"
    /\ LibFrame

FieldOps == {"add", "sub", "mul", "pow", "div"}

FieldApply(op, a, b) ==
    CASE op = "add" -> add(a, b)
      [] op = "sub" -> sub(a, b)
      [] op = "mul" -> mul(a, b)
      [] op = "pow" -> pow(a, b)
      [] op = "div" -> div(a, b)

\* x.add(y), x.sub(y), x.mul(y), x.pow(y.val), x.div(y) on two FieldElements.
FieldArith ==
    /\ libOp = "none"
    /\ \E op \in FieldOps, a \in Operands, b \in Operands :
           /\ libOp' = op
           /\ libIn' = [a |-> a, b |-> b]
           /\ libOut' = Returned(FieldApply(op, a, b))
    /\ LibFrame

\* x.inv(), and x.inv().mul(x).
FieldInv ==
    /\ libOp = "none"
    /\ \E a \in Operands :
           /\ libIn' = [a |-> a]
           /\ libOut' = [threw |-> FALSE, val |-> inv(a), back |-> mul(inv(a), a)]
    /\ libOp' = "inv"
    /\ LibFrame

\* mimcHash(x, key), and the trace the prover's loop builds from x with key.
MimcCall ==
    /\ libOp = "none"
    /\ \E x \in Operands, key \in Operands :
           /\ libIn' = [x |-> x, key |-> key]
           /\ libOut' = [hash |-> mimcHash(x, key), trace |-> TraceLoop(<<x>>, key)]
    /\ libOp' = "mimcHash"
    /\ LibFrame

(***************************************************************************)
(* verify on request bodies of any shape: an emitted proof as it is, with  *)
(* members missing or unparsable, and bodies that are no object at all.    *)
(***************************************************************************)
Object(proofObj, missing) == [js |-> "object", proof |-> proofObj, missing |-> missing]

\* The members of a query a body can lack or hold unparsable.
QueryMembers == {"value", "next_value", "path"}

\* Query k of the proof with one member undefined or (for the two values) a
\* string BigInt cannot parse; a path that is undefined is no more iterable
\* than one that is null.
BadQuery(query, member, bad) ==
    CASE member = "value" -> [query EXCEPT !.value = bad]
      [] member = "next_value" -> [query EXCEPT !.next_value = bad]
      [] member = "path" -> [query EXCEPT !.path = NullPath]

BadValues == {Undefined} \cup Tokens

\* The declared output undefined or unparsable, under the name it has in
\* the proof's type.
BadOutput(proofObj, bad) ==
    IF proofObj.proof_type = ProofTypeKnowledge
    THEN [proofObj EXCEPT !.public_inputs.public_output = bad]
    ELSE [proofObj EXCEPT !.public_inputs.mimc_output = bad]

\* Request bodies made from an emitted proof, each with what was done to it.
Bodies(proofObj) ==
    {[how |-> "asEmitted", body |-> Object(proofObj, {})],
     [how |-> "null", body |-> [js |-> "falsy"]],
     [how |-> "nonObject", body |-> [js |-> "primitive"]],
     [how |-> "unknownType", body |-> Object([proofObj EXCEPT !.proof_type = "none"], {})]}
    \cup {[how |-> "missingMember", body |-> Object(proofObj, m)] :
             m \in (SUBSET {"public_inputs", "trace_queries"}) \ {{}}}
    \cup {[how |-> "badOutput", body |-> Object(BadOutput(proofObj, bad), {})] :
             bad \in BadValues}
    \cup {[how |-> "badQuery",
           body |-> Object([proofObj EXCEPT !.trace_queries[kmb[1]] =
                               BadQuery(@, kmb[2], kmb[3])], {})] :
             kmb \in {x \in (1..Len(proofObj.trace_queries)) \X QueryMembers \X BadValues :
                        x[2] = "next_value" => proofObj.trace_queries[x[1]].index # MIMC_ROUNDS}}

\* verifier.verify(body) for one such body.
VerifyRequest ==
    /\ libOp = "none"
    /\ phase = "proved"
    /\ \E req \in Bodies(proof) :
           /\ libIn' = req
           /\ libOut' = verifyBody(req.body)
    /\ libOp' = "verify"
    /\ LibFrame

NextTotal ==
    \/ GenerateProof
    \/ GenerateKnowledgeProof
    \/ VerifyRequest

SpecTotal == Init /\ [][NextTotal]_vars

NextLib ==
    \/ MerkleRoundTrip
    \/ MerkleVerifyShifted
    \/ HashPairCall
    \/ FieldConstruct
    \/ FieldArith
    \/ FieldInv
    \/ MimcCall

SpecLib == Init /\ [][NextLib]_vars

(***************************************************************************)
(* Properties.                                                             *)
(***************************************************************************)
Honest == phase # "idle" /\ tamper = NoTamper
Verified == phase \in {"checked", "rechecked"}
Reverified == phase = "rechecked" /\ baseline.success
IsKnowledge == proof.proof_type = ProofTypeKnowledge
IsIntegrity == proof.proof_type = ProofTypeIntegrity
IsNative == IsIntegrity /\ proof.public_inputs.algorithm = "mimc-stark"
MismatchKinds == {"MerkleMismatch", "TransitionMismatch", "BoundaryMismatch"}
QueryIndices == {Queries[k].index : k \in 1..Len(Queries)}
BoundaryQueries ==
    {k \in 1..Len(Queries) :
        /\ Queries[k].index = MIMC_ROUNDS
        /\ Queries[k].next_value = Null
        /\ Queries[k].next_path = NullPath}

\* C1: the proof generateProof or generateKnowledgeProof emits, for any
\* password, algorithm and KDF artifact or any secret and nonce, is accepted
\* by verify as it stands, and verify checked it with the key the prover
\* bound the trace to.
C1_Completeness ==
    phase = "checked" => (result.success /\ result.error = "none" /\ result.key = mimcKey)

C1_Witness ==
    /\ phase = "checked"
    /\ IsKnowledge
    /\ result.success
    /\ Len(Queries) = NUM_QUERIES + 1

\* C2: an accepted proof in which one query's value, one query's next_value
\* or one entry of one query's path has been changed to a different value is
\* rejected, with a Merkle, transition or boundary mismatch.
C2_SingleMutationRejected ==
    (Reverified /\ tamper.kind \in {"value", "next_value", "path"})
        => (~result.success /\ result.error \in MismatchKinds)

\* C3: an accepted proof whose declared output (mimc_output or
\* public_output) has been replaced by another field value is rejected with
\* the boundary mismatch and no other kind, native mode included.
C3_OutputReplacedIsBoundaryMismatch ==
    (Reverified /\ tamper.kind = "output")
        => (~result.success /\ result.error = "BoundaryMismatch")

\* C4: a knowledge proof with a query of index 0 is rejected with
\* WitnessLeak, even if that query is authentic.
C4_IndexZeroIsWitnessLeak ==
    (Verified /\ IsKnowledge /\ 0 \in QueryIndices)
        => (~result.success /\ result.error = "WitnessLeak")

\* C5: the proof generateKnowledgeProof returns has no query of index 0.
C5_ProverNeverRevealsIndexZero ==
    (Honest /\ IsKnowledge) => 0 \notin QueryIndices

\* C6: verify accepts only if, for every query below the boundary, next_path
\* is present and authenticates next_value at index + 1 against trace_root.
C6_NextPathAuthenticated ==
    (Verified /\ result.success) =>
        \A k \in 1..Len(Queries) :
            Queries[k].index < MIMC_ROUNDS =>
                /\ ~MerkleVerifyThrows(Queries[k].next_path)
                /\ MerkleVerify(proof.public_inputs.trace_root, Queries[k].index + 1,
                                BigInt(Queries[k].next_value), Queries[k].next_path)

\* C7: verify accepts only a proof with exactly one boundary query (index R,
\* no next fields).
C7_ExactlyOneBoundaryQuery ==
    (Verified /\ result.success) => Cardinality(BoundaryQueries) = 1

\* C8: in native mode the prover builds the trace with key 0 and publishes
\* outputHash = mimc_output; the verifier rejects a native proof whose
\* outputHash differs from mimc_output and otherwise checks with key 0; for
\* any other algorithm it checks with key stringToField(outputHash).
C8_NativeMode ==
    /\ (Honest /\ IsNative) =>
            /\ mimcKey = 0
            /\ trace[2] = CubeRound(trace[1], 0, 0)
            /\ proof.public_inputs.outputHash = proof.public_inputs.mimc_output
    /\ (Verified /\ IsNative) =>
            /\ proof.public_inputs.outputHash # proof.public_inputs.mimc_output
                    => (~result.success /\ result.key = NoKey)
            /\ proof.public_inputs.outputHash = proof.public_inputs.mimc_output
                    => result.key = 0
    /\ (Verified /\ IsIntegrity /\ ~IsNative) =>
            result.key = stringToField(proof.public_inputs.outputHash)

C8_Witness ==
    /\ phase = "rechecked"
    /\ IsNative
    /\ tamper.kind = "artifact"
    /\ result.error = "DataIntegrity"

\* C9: a call generateFiatShamirQueries(root, n, d) with n <= d that has
\* returned gave exactly n pairwise distinct indices of [0, d) in ascending
\* order, and the second call with the same arguments gave the same list.
C9_SamplerContract ==
    (fsPc = "done" /\ fsN <= fsD) =>
        /\ Len(fsResult) = fsN
        /\ \A i, j \in 1..Len(fsResult) : i < j => fsResult[i] < fsResult[j]
        /\ \A i \in 1..Len(fsResult) : fsResult[i] >= 0 /\ fsResult[i] < fsD
        /\ fsCall = 2 => fsResult = fsFirst

C9_Witness ==
    /\ fsPc = "done"
    /\ fsCall = 2
    /\ fsN = NUM_QUERIES
    /\ fsD = MIMC_ROUNDS
    /\ fsResult # fsIndices

\* C10: the sampler's loop stops within a fixed number of iterations: a call
\* that has made that many is no longer looping (it returned, or failed with
\* TranscriptStuck).
C10_LoopIsCapped ==
    fsCounter >= IterCap => fsPc # "loop"

\* C11: for every sequence of 1 or more canonical leaves and every index in
\* it, verify accepts the leaf with the path getPath gives against the root
\* getRoot gives (odd layers padded with "", one leaf with the empty path).
C11_MerkleRoundTrip ==
    libOp = "merkle" => libOut.ok

C11_Witness ==
    /\ libOp = "merkle"
    /\ Len(libIn.leaves) = 5
    /\ libIn.index = 4
    /\ libOut.path = <<EmptyString, EmptyString, libOut.layers[3][1]>>
    /\ libOut.ok


\* C12: for any two distinct field values a and b, hashPair(a, b) differs
\* from hashPair(b, a).
C12_HashPairNotCommutative ==
    (libOp = "hashPair" /\ libIn.a # libIn.b) => libOut.ab # libOut.ba

\* "" or the decimal string, without leading zeros, of a value in [0, p).
Canonical(s) ==
    \/ s = EmptyString
    \/ /\ ~BigIntThrows(s)
       /\ Len(s) = 1 \/ s[1] # 48
       /\ BigInt(s) < FIELD_MODULUS

\* C13: a proof whose authentication path holds an entry that is neither ""
\* nor the canonical decimal string of a field value is rejected.
C13_NonCanonicalPathEntryRejected ==
    (Verified /\ \E k \in 1..Len(Queries) : \E e \in 1..Len(Queries[k].path) :
                     ~Canonical(Queries[k].path[e]))
        => ~result.success

\* C14: inverting zero, and dividing by zero, fail with an error instead of
\* returning a field value.
C14_InverseOfZeroFails ==
    /\ (libOp = "inv" /\ libIn.a = 0) => libOut.threw
    /\ (libOp = "div" /\ libIn.b = 0) => libOut.threw

\* No number between 2 and its square root divides the modulus.
FieldIsPrime ==
    \A d \in 2..FIELD_MODULUS : d * d > FIELD_MODULUS \/ FIELD_MODULUS % d # 0

\* C15: a FieldElement constructed from any signed integer, and the result of
\* add, sub, mul, pow, inv and div, holds a value in [0, p); constructing from
\* -1 gives p - 1; and in the prime field x.inv().mul(x) is 1 for x # 0.
C15_FieldElementCanonical ==
    /\ libOp \in FieldOps \cup {"construct", "inv"} => libOut.val \in 0..(FIELD_MODULUS - 1)
    /\ (libOp = "construct" /\ libIn.v = 0 - 1) => libOut.val = FIELD_MODULUS - 1
    /\ (libOp = "inv" /\ libIn.a # 0 /\ FieldIsPrime) => libOut.back = 1

C15_Witness ==
    /\ libOp = "construct"
    /\ libIn.v = 0 - 1
    /\ libOut.val = FIELD_MODULUS - 1

C17_OrderIndependent ==
    phase = "reverified" => result.success = baseline.success

C17_Witness ==
    /\ phase = "reverified"
    /\ ~result.success
    /\ ~baseline.success
    /\ Len(Queries) = NUM_QUERIES + 1
    /\ Queries[1].index = MIMC_ROUNDS

\* C18: an emitted proof lists its NUM_QUERIES sampled queries by strictly
\* ascending index, each index in [0, MIMC_ROUNDS - 1] and each with
\* next_value and next_path present, and then, last, the one boundary query
\* at index MIMC_ROUNDS with next_value and next_path null.
C18_EmittedQueryOrder ==
    Honest =>
        /\ Len(Queries) = NUM_QUERIES + 1
        /\ \A k \in 1..NUM_QUERIES :
               /\ Queries[k].index \in 0..(MIMC_ROUNDS - 1)
               /\ k > 1 => Queries[k - 1].index < Queries[k].index
               /\ Queries[k].next_value # Null
               /\ ~BigIntThrows(Queries[k].next_value)
               /\ Queries[k].next_path # NullPath
               /\ Len(Queries[k].next_path) = Len(Queries[k].path)
        /\ Queries[NUM_QUERIES + 1].index = MIMC_ROUNDS
        /\ Queries[NUM_QUERIES + 1].next_value = Null
        /\ Queries[NUM_QUERIES + 1].next_path = NullPath

C18_Witness ==
    /\ Honest
    /\ IsKnowledge
    /\ Len(Queries) = NUM_QUERIES + 1
    /\ Queries[1].index < Queries[NUM_QUERIES].index
    /\ BoundaryQueries = {NUM_QUERIES + 1}

\* What the loop over the queries compares the boundary value with, and the
\* queries of the proof that do not pass the loop body, by position.
DeclaredOutput ==
    IF IsKnowledge THEN BigInt(proof.public_inputs.public_output)
    ELSE BigInt(proof.public_inputs.mimc_output)

Answered == phase \in {"checked", "rechecked", "reverified"}

\* The loop body's verdict on each query of the proof, by position.
QueryVerdicts ==
    [k \in 1..Len(Queries) |->
        CheckQuery(Queries[k], proof.public_inputs.trace_root, DeclaredOutput, result.key)]

FirstFailure(verdicts) ==
    CHOOSE k \in DOMAIN verdicts :
        verdicts[k] # "ok" /\ \A j \in 1..(k - 1) : verdicts[j] = "ok"

\* C19: when verify reaches its loop over the queries, it accepts exactly
\* when no query fails; otherwise it reports the failure of the first failing
\* query in list order, and it reports a transition or boundary failure only
\* for a query whose Merkle path verified.
C19_FirstFailureInListOrder ==
    (Answered /\ result.key # NoKey) =>
        LET verdicts == QueryVerdicts
        IN  IF \A k \in DOMAIN verdicts : verdicts[k] = "ok"
            THEN result.success
            ELSE /\ ~result.success
                 /\ result.error = verdicts[FirstFailure(verdicts)]
                 /\ result.error \in {"TransitionMismatch", "BoundaryMismatch"} =>
                        MerkleVerify(proof.public_inputs.trace_root,
                                     Queries[FirstFailure(verdicts)].index,
                                     BigInt(Queries[FirstFailure(verdicts)].value),
                                     Queries[FirstFailure(verdicts)].path)

C19_Witness ==
    /\ phase = "reverified"
    /\ result.key # NoKey
    /\ result.error = "MerkleMismatch"
    /\ FirstFailure(QueryVerdicts) > 1

\* C20: mimcHash(x, key) is the last element of the prover's trace plus key,
\* reduced; the trace starts at x, has MIMC_ROUNDS + 1 elements, and each
\* element follows from the one before by the verifier's transition relation.
C20_ClosingKeyAdd ==
    libOp = "mimcHash" =>
        /\ Len(libOut.trace) = MIMC_ROUNDS + 1
        /\ libOut.trace[1] = libIn.x
        /\ libOut.hash = (libOut.trace[MIMC_ROUNDS + 1] + libIn.key) % FIELD_MODULUS
        /\ \A i \in 0..(MIMC_ROUNDS - 1) :
               libOut.trace[i + 2] = ExpectedNext(libOut.trace[i + 1], libIn.key, i)

C20_Witness ==
    /\ libOp = "mimcHash"
    /\ libIn.key = FIELD_MODULUS - 1
    /\ libOut.hash # libOut.trace[MIMC_ROUNDS + 1]
    /\ libOut.hash = (libOut.trace[MIMC_ROUNDS + 1] + libIn.key) % FIELD_MODULUS


\* x xor 1 on a non-negative integer, and ceil(n / 2).
Xor1(x) == IF x % 2 = 0 THEN x + 1 ELSE x - 1
HalfUp(n) == (n + 1) \div 2

\* C21: the tree over L >= 1 leaves has L nodes in its first layer and
\* ceil(previous / 2) in each one above, ends with the first layer of length
\* 1, and getPath(i) has one entry per layer below the root, the k-th being
\* node ((i >> k) xor 1) of layer k, or "" when the layer has no such node.
C21_LayerAndPathShape ==
    libOp = "merkle" =>
        LET layers == libOut.layers
            path == libOut.path
            i == libIn.index
        IN  /\ Len(layers[1]) = Len(libIn.leaves)
            /\ \A l \in 2..Len(layers) : Len(layers[l]) = HalfUp(Len(layers[l - 1]))
            /\ \A l \in 1..Len(layers) : Len(layers[l]) = 1 <=> l = Len(layers)
            /\ libOut.root = layers[Len(layers)][1]
            /\ Len(path) = Len(layers) - 1
            /\ \A k \in 0..(Len(path) - 1) :
                   path[k + 1] =
                       IF Xor1(i \div 2^k) < Len(layers[k + 1])
                       THEN layers[k + 1][Xor1(i \div 2^k) + 1]
                       ELSE EmptyString

C21_Witness ==
    /\ libOp = "merkle"
    /\ Len(libIn.leaves) = 3
    /\ libIn.index = 2
    /\ Len(libOut.layers) = 3
    /\ Len(libOut.layers[2]) = 2
    /\ libOut.path = <<EmptyString, libOut.layers[2][1]>>


\* C22 as stated: every round constant a call of mimcHash uses is a
\* canonical field value, 0 <= c_i < p.
C22_ConstantsCanonical ==
    libOp = "mimcHash" =>
        \A i \in 0..(MIMC_ROUNDS - 1) : MIMC_CONSTANTS(i) \in 0..(FIELD_MODULUS - 1)

\* C22, amended: the constants are below p for rounds 0..26 only and are
\* used unreduced from round 27 on; each round reduces its sum before
\* cubing, so every trace value and the hash are canonical all the same.
C22_ConstantsReducedInUse ==
    libOp = "mimcHash" =>
        /\ \A i \in 0..(MIMC_ROUNDS - 1) : MIMC_CONSTANTS(i) < FIELD_MODULUS <=> i <= 26
        /\ \A i \in 0..(MIMC_ROUNDS - 1) : RoundConst(i) = MIMC_CONSTANTS(i)
        /\ \A k \in 1..Len(libOut.trace) : libOut.trace[k] \in 0..(FIELD_MODULUS - 1)
        /\ libOut.hash \in 0..(FIELD_MODULUS - 1)

C22_Witness ==
    /\ libOp = "mimcHash"
    /\ MIMC_CONSTANTS(27) > FIELD_MODULUS
    /\ libOut.trace[28] + libIn.key + MIMC_CONSTANTS(27) >= FIELD_MODULUS
    /\ libOut.trace[29] \in 0..(FIELD_MODULUS - 1)
    /\ libOut.trace[29] = ExpectedNext(libOut.trace[28], libIn.key, 27)


\* The errors verify reports in a result record.
ReportedErrors ==
    {"InvalidProofFormat", "UnknownProofType", "DataIntegrity", "LogicError",
     "MerkleMismatch", "BoundaryMismatch", "TransitionMismatch"}

\* C23: for a body that is null, no object, of an unknown proof_type, or that
\* lacks public_inputs or trace_queries or holds a missing or unparsable
\* output, value, next_value or path, verify returns a record with success
\* false and one of its errors, never letting a throw through; it returns
\* success only for an object with one of the two proof_type tags.
C23_VerifyIsTotal ==
    libOp = "verify" =>
        /\ libOut.success => libOut.error = "none"
        /\ ~libOut.success => libOut.error \in ReportedErrors
        /\ libIn.how # "asEmitted" => ~libOut.success
        /\ libOut.success =>
               /\ libIn.body.js = "object"
               /\ libIn.body.proof.proof_type \in {ProofTypeKnowledge, ProofTypeIntegrity}

C23_Witness ==
    /\ libOp = "verify"
    /\ libIn.how = "badQuery"
    /\ BigIntThrows(libIn.body.proof.trace_queries[NUM_QUERIES].next_value)
    /\ libOut = Reject("LogicError", mimcKey)


\* C24: MerkleTree.verify gives the same answer for two indices that agree
\* in their low path.length bits, so an index beyond the leaves the path can
\* address is accepted or rejected exactly like the one it wraps to.
C24_IndexModuloPathLength ==
    libOp = "verifyShifted" =>
        /\ libIn.shifted % 2^Len(libOut.path) = libIn.index % 2^Len(libOut.path)
        /\ libOut.atShifted = libOut.at

C24_Witness ==
    /\ libOp = "verifyShifted"
    /\ Len(libIn.leaves) = 5
    /\ libIn.index = 4
    /\ libIn.shifted = 4 + 8
    /\ libOut.at
    /\ libOut.atShifted

=============================================================================
